---- MODULE Spec2Model ----
(***************************************************************************)
(* GrokDB (src/src/index.ts): a schema-driven data-access layer over an    *)
(* embedded SQL engine.  The module models the GrokDB class: the schema    *)
(* registry, the per-column value codecs (processValue / unprocessValue),  *)
(* insert / find / update / delete with soft delete and validators, the    *)
(* transaction handles, and the migration runner.                          *)
(*                                                                         *)
(* The specifications share the variables:                                *)
(*   Spec         createTable, setValidator, insert, update, delete        *)
(*   SpecTxn      transaction(), commit(), rollback() around insert/delete *)
(*   SpecMigrate  createMigration and migrate                              *)
(*   SpecCodec    one value through processValue, the bind, unprocessValue *)
(*   SpecEvents   on() listeners around the writes and the transaction ends *)
(*   SpecFind     find and findOne with orderBy, limit and offset           *)
(*   SpecSchema   createTable, alterTable, dropColumn                       *)
(*   SpecDelete   delete on tables with and without a soft-delete column,   *)
(*                under the validators                                      *)
(***************************************************************************)
EXTENDS Integers, Sequences, FiniteSets, TLC

VARIABLES
    tables,         \* this.tables: table name -> TableSchema (or NoSchema)
    validators,     \* this.validators: table name -> validator (or NoValidator)
    encryptionKey,  \* this.encryptionKey
    db,             \* this.db: the storage engine's tables, rows and ledger
    inTxn,          \* the connection has an open transaction
    snap,           \* the engine's image of db at BEGIN (what ROLLBACK restores)
    handles,        \* number of Transaction handles returned so far
    owner,          \* history: the handle whose transaction() opened the open transaction
    ended,          \* history: handle -> number of COMMIT/ROLLBACK it made take effect
    published,      \* history: handle -> number of transaction:* events it published
    txnIns,         \* history: ids inserted since BEGIN, in order
    txnOther,       \* history: something other than an insert ran since BEGIN
    txnBase,        \* history: what find returned just before BEGIN
    files,          \* the migration directory: the unit files in it
    clock,          \* the timestamp createMigration stamps the next file with
    upRuns,         \* history: unit -> number of times its up-procedure was invoked
    downRuns,       \* history: unit -> number of times its down-procedure was invoked
    migHist,        \* history: the directions of the migrate calls made so far
    lastOp,         \* the last public call: what it was and how it ended
    listeners,      \* the EventEmitter's listeners: topic -> the listeners, in order of on()
    schemaHist,     \* history: a schema call has raised; the columns the caller last defined
    cpc,            \* SpecCodec: where the value is (input, encoded, stored, decoded, raised)
    cvalue,         \* SpecCodec: the value the caller passes
    cconfig,        \* SpecCodec: the ColumnDefinition of the column
    cenc,           \* SpecCodec: processValue's result
    cstored,        \* SpecCodec: what the column holds
    cdec,           \* SpecCodec: unprocessValue's result
    craw            \* SpecCodec: the stored text was not written by processValue

crudVars == <<tables, validators, db, lastOp, listeners, schemaHist>>
txnVars == <<inTxn, snap, handles, owner, ended, published, txnIns, txnOther, txnBase>>
migVars == <<files, clock, upRuns, downRuns, migHist>>
codecVars == <<cpc, cvalue, cconfig, cenc, cstored, cdec, craw>>
vars == <<tables, validators, encryptionKey, db, inTxn, snap, handles, owner, ended,
          published, txnIns, txnOther, txnBase, files, clock, upRuns, downRuns,
          migHist, lastOp, listeners, schemaHist, cpc, cvalue, cconfig, cenc, cstored, cdec, craw>>

(***************************************************************************)
(* Runtime values.  A JavaScript value is a record with a type tag; text   *)
(* is a sequence of one-character strings, so that serialising, parsing    *)
(* and enciphering compute on the characters.                              *)
(***************************************************************************)
Val(t, b, n, s, keys, kids) ==
    [t |-> t, b |-> b, n |-> n, s |-> s, keys |-> keys, kids |-> kids]
Null == Val("null", FALSE, 0, <<>>, <<>>, <<>>)
Bool(b) == Val("bool", b, 0, <<>>, <<>>, <<>>)
Num(n) == Val("num", FALSE, n, <<>>, <<>>, <<>>)
Str(s) == Val("str", FALSE, 0, s, <<>>, <<>>)
Arr(kids) == Val("arr", FALSE, 0, <<>>, <<>>, kids)
Obj(keys, kids) == Val("obj", FALSE, 0, <<>>, keys, kids)

Range(f) == {f[x] : x \in DOMAIN f}

Digits == <<"0", "1", "2", "3", "4", "5", "6", "7", "8", "9">>
DigitSet == Range(Digits)
DigitValue(c) == (CHOOSE i \in 1..Len(Digits) : Digits[i] = c) - 1

RECURSIVE Decimal(_)
\* Number -> its decimal text (JSON.stringify of a non-negative integer).
Decimal(n) == IF n < 10 THEN <<Digits[n + 1]>> ELSE Decimal(n \div 10) \o <<Digits[(n % 10) + 1]>>

RECURSIVE Escape(_)
\* The inside of a JSON string literal: quote and backslash are escaped.
Escape(s) ==
    IF s = <<>> THEN <<>>
    ELSE (IF Head(s) \in {"\"", "\\"} THEN <<"\\", Head(s)>> ELSE <<Head(s)>>) \o Escape(Tail(s))

Quote(s) == <<"\"">> \o Escape(s) \o <<"\"">>

RECURSIVE JSONstringify(_), StringifyElems(_), StringifyMembers(_, _)
StringifyElems(kids) ==
    IF kids = <<>> THEN <<>>
    ELSE JSONstringify(Head(kids))
         \o (IF Len(kids) > 1 THEN <<",">> ELSE <<>>) \o StringifyElems(Tail(kids))
StringifyMembers(keys, kids) ==
    IF keys = <<>> THEN <<>>
    ELSE Quote(Head(keys)) \o <<":">> \o JSONstringify(Head(kids))
         \o (IF Len(keys) > 1 THEN <<",">> ELSE <<>>) \o StringifyMembers(Tail(keys), Tail(kids))
\* JSON.stringify(value): the canonical JSON text of a value.
JSONstringify(v) ==
    CASE v.t = "null" -> <<"n", "u", "l", "l">>
      [] v.t = "bool" -> IF v.b THEN <<"t", "r", "u", "e">> ELSE <<"f", "a", "l", "s", "e">>
      [] v.t = "num" -> Decimal(v.n)
      [] v.t = "str" -> Quote(v.s)
      [] v.t = "arr" -> <<"[">> \o StringifyElems(v.kids) \o <<"]">>
      [] v.t = "obj" -> <<"{">> \o StringifyMembers(v.keys, v.kids) \o <<"}">>

\* The parser: each step returns [ok, v, next], next the index after what it read.
ParseFail == [ok |-> FALSE, v |-> Null, next |-> 0]
ParseOk(v, next) == [ok |-> TRUE, v |-> v, next |-> next]
At(s, i) == IF i >= 1 /\ i <= Len(s) THEN s[i] ELSE "EOF"
Matches(s, i, word) ==
    /\ i + Len(word) - 1 <= Len(s)
    /\ \A k \in 1..Len(word) : s[i + k - 1] = word[k]

RECURSIVE ParseChars(_, _, _)
\* The characters of a string literal after its opening quote.
ParseChars(s, i, acc) ==
    IF i > Len(s) THEN ParseFail
    ELSE IF s[i] = "\"" THEN ParseOk(Str(acc), i + 1)
    ELSE IF s[i] = "\\"
         THEN IF At(s, i + 1) \in {"\"", "\\"}
              THEN ParseChars(s, i + 2, Append(acc, s[i + 1]))
              ELSE ParseFail
    ELSE ParseChars(s, i + 1, Append(acc, s[i]))

RECURSIVE ParseDigits(_, _, _)
ParseDigits(s, i, acc) ==
    IF At(s, i) \in DigitSet
    THEN ParseDigits(s, i + 1, acc * 10 + DigitValue(s[i]))
    ELSE ParseOk(Num(acc), i)

\* An object member with a repeated key replaces the earlier one.
PutMember(keys, kids, k, v) ==
    IF \E j \in 1..Len(keys) : keys[j] = k
    THEN [keys |-> keys,
          kids |-> [j \in 1..Len(kids) |-> IF keys[j] = k THEN v ELSE kids[j]]]
    ELSE [keys |-> Append(keys, k), kids |-> Append(kids, v)]

RECURSIVE ParseValue(_, _), ParseElems(_, _, _), ParseMembers(_, _, _, _)
RECURSIVE AfterElem(_, _, _), AfterKey(_, _, _, _), AfterMember(_, _, _)
\* The elements of an array after "[" : r is the element just read.
AfterElem(s, acc, r) ==
    IF ~r.ok THEN ParseFail
    ELSE IF At(s, r.next) = "," THEN ParseElems(s, r.next + 1, Append(acc, r.v))
    ELSE IF At(s, r.next) = "]" THEN ParseOk(Arr(Append(acc, r.v)), r.next + 1)
    ELSE ParseFail
ParseElems(s, i, acc) == AfterElem(s, acc, ParseValue(s, i))
\* The members of an object after "{" : k is the key just read, then m the members
\* with the value r just read.
AfterMember(s, r, m) ==
    IF ~r.ok THEN ParseFail
    ELSE IF At(s, r.next) = "," THEN ParseMembers(s, r.next + 1, m.keys, m.kids)
    ELSE IF At(s, r.next) = "}" THEN ParseOk(Obj(m.keys, m.kids), r.next + 1)
    ELSE ParseFail
MemberRead(keys, kids, k, r) == IF r.ok THEN PutMember(keys, kids, k.v.s, r.v) ELSE r
AfterValue(s, keys, kids, k, r) == AfterMember(s, r, MemberRead(keys, kids, k, r))
AfterKey(s, keys, kids, k) ==
    IF ~k.ok THEN ParseFail
    ELSE IF At(s, k.next) # ":" THEN ParseFail
    ELSE AfterValue(s, keys, kids, k, ParseValue(s, k.next + 1))
ParseMembers(s, i, keys, kids) ==
    IF At(s, i) # "\"" THEN ParseFail
    ELSE AfterKey(s, keys, kids, ParseChars(s, i + 1, <<>>))
ParseValue(s, i) ==
    LET c == At(s, i) IN
    CASE c = "\"" -> ParseChars(s, i + 1, <<>>)
      [] c = "[" -> IF At(s, i + 1) = "]" THEN ParseOk(Arr(<<>>), i + 2)
                    ELSE ParseElems(s, i + 1, <<>>)
      [] c = "{" -> IF At(s, i + 1) = "}" THEN ParseOk(Obj(<<>>, <<>>), i + 2)
                    ELSE ParseMembers(s, i + 1, <<>>, <<>>)
      [] c = "0" -> ParseOk(Num(0), i + 1)
      [] c \in DigitSet \ {"0"} -> ParseDigits(s, i, 0)
      [] c = "t" -> IF Matches(s, i, <<"t", "r", "u", "e">>)
                    THEN ParseOk(Bool(TRUE), i + 4) ELSE ParseFail
      [] c = "f" -> IF Matches(s, i, <<"f", "a", "l", "s", "e">>)
                    THEN ParseOk(Bool(FALSE), i + 5) ELSE ParseFail
      [] c = "n" -> IF Matches(s, i, <<"n", "u", "l", "l">>)
                    THEN ParseOk(Null, i + 4) ELSE ParseFail
      [] OTHER -> ParseFail

\* JSON.parse(text): the value, or ok = FALSE where JSON.parse throws SyntaxError.
Whole(s, r) ==
    IF r.ok /\ r.next = Len(s) + 1 THEN [ok |-> TRUE, v |-> r.v] ELSE [ok |-> FALSE, v |-> Null]
JSONparse(s) == Whole(s, ParseValue(s, 1))

(***************************************************************************)
(* CryptoJS.AES with a passphrase.  encrypt draws a random salt, derives   *)
(* the cipher key from passphrase and salt, pads the text and enciphers    *)
(* it; the result is text: a fixed header, the salt, the ciphertext.       *)
(* Here the cipher is a substitution over Alphabet keyed by passphrase and *)
(* salt, and the padding is one trailing PadMark.                          *)
(***************************************************************************)
Alphabet ==
    <<"0", "1", "2", "3", "4", "5", "6", "7", "8", "9",
      "a", "b", "c", "e", "f", "k", "l", "n", "q", "r", "s", "t", "u", "x", "y",
      "\"", "\\", "{", "}", "[", "]", ":", ",", "@", "#", "U", "F">>
AlphabetSize == Len(Alphabet)
Index(c) == CHOOSE i \in 1..AlphabetSize : Alphabet[i] = c
CipherHeader == <<"U", "2", "F">>
PadMark == "#"
Salts == {"x", "y"}

RECURSIVE KeySum(_)
KeySum(s) == IF s = <<>> THEN 0 ELSE Index(Head(s)) + KeySum(Tail(s))
\* The derived cipher key: never the identity substitution.
Shift(key, salt) == 1 + ((KeySum(key) + Index(salt)) % (AlphabetSize - 1))
Encipher(text, k) == [i \in 1..Len(text) |-> Alphabet[((Index(text[i]) - 1 + k) % AlphabetSize) + 1]]
Decipher(text, k) ==
    [i \in 1..Len(text) |-> Alphabet[((Index(text[i]) - 1 + AlphabetSize - k) % AlphabetSize) + 1]]

\* CryptoJS.AES.encrypt(text, key).toString()
AESencrypt(text, key, salt) ==
    CipherHeader \o <<salt>> \o Encipher(text \o <<PadMark>>, Shift(key, salt))

\* CryptoJS.AES.decrypt(text, key).toString(CryptoJS.enc.Utf8): the plaintext when
\* text is a ciphertext made with key; otherwise the bytes are garbage.
AESdecrypt(text, key) ==
    IF /\ Len(text) >= Len(CipherHeader) + 2
       /\ SubSeq(text, 1, Len(CipherHeader)) = CipherHeader
       /\ text[Len(CipherHeader) + 1] \in Salts
    THEN LET plain == Decipher(SubSeq(text, Len(CipherHeader) + 2, Len(text)),
                               Shift(key, text[Len(CipherHeader) + 1]))
         IN IF plain[Len(plain)] = PadMark
            THEN [ok |-> TRUE, s |-> SubSeq(plain, 1, Len(plain) - 1)]
            ELSE [ok |-> FALSE, s |-> <<>>]
    ELSE [ok |-> FALSE, s |-> <<>>]

\* What the library does with garbage bytes: toString(Utf8) throws "Malformed UTF-8
\* data", or the unpadded garbage is empty and it returns ''.
DecryptFailures == {"throws", "empty"}

(***************************************************************************)
(* ColumnDefinition and the codecs                                         *)
(***************************************************************************)
Column(type, primary, encrypted, json, softDelete) ==
    [type |-> type, primary |-> primary, encrypted |-> encrypted, json |-> json,
     softDelete |-> softDelete]

Undefined == Val("undefined", FALSE, 0, <<>>, <<>>, <<>>)
\* JavaScript truthiness of this.encryptionKey (undefined and '' are falsy).
Truthy(v) == v.t = "str" /\ v.s # <<>>

Return(v) == [raised |-> FALSE, err |-> "", v |-> v]
Raise(err) == [raised |-> TRUE, err |-> err, v |-> Null]

Parsed(p) == IF p.ok THEN Return(p.v) ELSE Raise("SyntaxError")

\* GrokDB.processValue with the ternary on the key inverted: it encrypts only when
\* no key is configured.
ProcessValueKeyInverted(value, config, key, salt) ==
    IF config.json /\ value.t # "null"
    THEN IF value.t = "str" THEN Parsed(JSONparse(value.s))
         ELSE Return(Str(JSONstringify(value)))
    ELSE IF config.encrypted /\ value.t = "str"
    THEN IF ~Truthy(key) THEN Return(Str(AESencrypt(value.s, <<>>, salt))) ELSE Return(value)
    ELSE Return(value)

\* GrokDB.processValue(value, config); salt is the salt CryptoJS draws.
ProcessValue(value, config, key, salt) ==
    IF config.json /\ value.t # "null"
    THEN IF value.t = "str" THEN Parsed(JSONparse(value.s))
         ELSE Return(Str(JSONstringify(value)))
    ELSE IF config.encrypted /\ value.t = "str"
    THEN IF Truthy(key) THEN Return(Str(AESencrypt(value.s, key.s, salt))) ELSE Return(value)
    ELSE Return(value)

\* The try/catch around the decryption: the caught throw returns the stored value.
Decrypted(value, d, fail) ==
    IF d.ok THEN Return(Str(d.s))
    ELSE IF fail = "throws" THEN Return(value) ELSE Return(Str(<<>>))

\* GrokDB.unprocessValue(value, config); fail is what the library does when the
\* bytes are garbage.
UnprocessValue(value, config, key, fail) ==
    IF config.json /\ value.t # "null"
    THEN IF value.t = "str" THEN Parsed(JSONparse(value.s)) ELSE Return(value)
    ELSE IF config.encrypted /\ value.t = "str" /\ Truthy(key)
    THEN Decrypted(value, AESdecrypt(value.s, key.s), fail)
    ELSE Return(value)

\* stmt.run(values): the engine binds numbers, strings and null, and a TEXT column
\* keeps a number as its decimal text; any other value is a TypeError.
Bind(v, config) ==
    CASE v.t \in {"str", "null"} -> Return(v)
      [] v.t = "num" -> IF config.type = "TEXT" THEN Return(Str(Decimal(v.n))) ELSE Return(v)
      [] OTHER -> Raise("TypeError")

(***************************************************************************)
(* Bounds and inputs                                                       *)
(***************************************************************************)
MaxRows == 2
MaxId == 3
MaxHandles == 2
MaxFiles == 2
MaxMigrateCalls == 3
MaxListeners == 2
MaxFound == 3
MaxLimit == 2
MaxOffset == 2

TableNames == {"users"}
\* dropColumn's tempTable: `${table}_temp`
TempTable(table) == table \o "_temp"
\* The names the registry and the engine can hold.
Names == TableNames \cup {TempTable(t) : t \in TableNames}
Empty == [c \in {} |-> Null]
EmailA == Str(<<"a", "@">>)
EmailB == Str(<<"b", "@">>)
BadEmail == Str(<<"c">>)

\* The schemas callers define: a soft-delete column named deleted_at, one named
\* removed_at beside a plain deleted_at column, and no soft-delete column.
UsersSchema ==
    [id |-> Column("INTEGER", TRUE, FALSE, FALSE, FALSE),
     email |-> Column("TEXT", FALSE, FALSE, FALSE, FALSE),
     deleted_at |-> Column("DATETIME", FALSE, FALSE, FALSE, TRUE)]
ArchiveSchema ==
    [id |-> Column("INTEGER", TRUE, FALSE, FALSE, FALSE),
     email |-> Column("TEXT", FALSE, FALSE, FALSE, FALSE),
     deleted_at |-> Column("DATETIME", FALSE, FALSE, FALSE, FALSE),
     removed_at |-> Column("DATETIME", FALSE, FALSE, FALSE, TRUE)]
PlainSchema ==
    [id |-> Column("INTEGER", TRUE, FALSE, FALSE, FALSE),
     email |-> Column("TEXT", FALSE, FALSE, FALSE, FALSE)]
Schemas == {UsersSchema, ArchiveSchema, PlainSchema}
\* A table with a numeric column to order on.
ScoreSchema ==
    [id |-> Column("INTEGER", TRUE, FALSE, FALSE, FALSE),
     score |-> Column("INTEGER", FALSE, FALSE, FALSE, FALSE),
     deleted_at |-> Column("DATETIME", FALSE, FALSE, FALSE, TRUE)]

InsertPayloads == {[email |-> EmailA], [email |-> EmailB], [email |-> BadEmail]}
UpdatePayloads == {[email |-> EmailB], [email |-> BadEmail], Empty}
Wheres == {[email |-> EmailA], [email |-> EmailB], Empty}

\* new Date().toISOString()
Now == Str(<<"2", "0", "2", "6">>)

(***************************************************************************)
(* The registry, the validators and the storage engine                     *)
(***************************************************************************)
NoSchema == [defined |-> FALSE, schema |-> Empty]
Registered(schema) == [defined |-> TRUE, schema |-> schema]
\* No createTable, alterTable or dropColumn call yet.
NoSchemaCalls == [failed |-> FALSE, defined |-> [t \in Names |-> {}]]
NoTable == [exists |-> FALSE, cols |-> Empty, rows |-> <<>>]
NoLedger == [exists |-> FALSE, names |-> <<>>]
EmptyDb == [tbl |-> [t \in Names |-> NoTable], ledger |-> NoLedger]
\* txnBase while no transaction has been begun.
NoBase == [t \in TableNames |-> [raised |-> TRUE, err |-> "", v |-> <<>>]]

NoValidator == "none"
UserValidator == "user"
\* The same schema made strict: z.object({...}).strict() rejects keys it does not name.
StrictValidator == "strict"
Validators == {UserValidator, StrictValidator}
\* z.string().email(), as far as the inputs here tell addresses apart.
ValidEmail(v) == v.t = "str" /\ "@" \in Range(v.s)
\* validator.parse(data) / validator.partial().parse(data) for the test's userSchema
\* (email required; a z.object ignores keys it does not name unless it is strict).
Accepts(validator, data, partial) ==
    /\ validator = StrictValidator => DOMAIN data \subseteq {"email"}
    /\ IF "email" \in DOMAIN data THEN ValidEmail(data.email) ELSE partial

Event(table, kind, where, data) == [table |-> table, kind |-> kind, where |-> where, data |-> data]
Outcome(raised, err, newDb, events, ids, codecRan, sqlRan) ==
    [raised |-> raised, err |-> err, db |-> newDb, events |-> events, ids |-> ids,
     codecRan |-> codecRan, sqlRan |-> sqlRan]

\* An option the caller did not supply (undefined).
Absent == -1
NoOrder == [column |-> "", direction |-> ""]
QueryOptions(includeDeleted, limit, offset, orderBy) ==
    [includeDeleted |-> includeDeleted, limit |-> limit, offset |-> offset,
     orderBy |-> orderBy]
\* find's options = {}
DefaultOptions == QueryOptions(FALSE, Absent, Absent, NoOrder)
IncludeDeleted == QueryOptions(TRUE, Absent, Absent, NoOrder)
\* if (options.limit), if (options.offset): undefined and 0 are falsy.
TruthyNumber(n) == n # Absent /\ n # 0

\* The topic an event is published on: `${table}:insert`, 'transaction:commit', ...
Topic(event) == <<event.table, event.kind>>
Topics ==
    (TableNames \X {"insert", "update", "delete"})
        \cup {<<"transaction", "commit">>, <<"transaction", "rollback">>}
\* What a listener does when it is invoked.
ListenerKinds == {"returns", "throws"}
NoListeners == [topic \in Topics |-> <<>>]

\* this.emit without the listeners' errors reaching the caller: every listener is
\* invoked.
EmittedIsolated(events, ls) ==
    IF events = <<>> THEN [raised |-> FALSE, invoked |-> 0]
    ELSE [raised |-> FALSE, invoked |-> Len(ls[Topic(events[1])])]

\* this.emit(topic, payload): the topic's listeners are invoked in the order they
\* were registered; the first one that throws ends the emit, and its error leaves
\* emit.  invoked is the number of listeners that were invoked.  (A call publishes
\* at most one event.)
Emitted(events, ls) ==
    IF events = <<>> THEN [raised |-> FALSE, invoked |-> 0]
    ELSE LET throwers == {i \in 1..Len(ls[Topic(events[1])]) :
                            ls[Topic(events[1])][i] = "throws"}
         IN IF throwers = {}
            THEN [raised |-> FALSE, invoked |-> Len(ls[Topic(events[1])])]
            ELSE [raised |-> TRUE,
                  invoked |-> CHOOSE i \in throwers : \A j \in throwers : i <= j]

\* How a call ends once its statements ended as o and its event went to the
\* listeners as e.
Ended(o, e) ==
    [ok |-> ~o.raised /\ ~e.raised,
     err |-> IF o.raised THEN o.err ELSE IF e.raised THEN "ListenerError" ELSE "",
     invoked |-> e.invoked]

\* The record of a call: its arguments, how it ended, what it published, the
\* listeners it invoked, the rows it wrote, and whether the engine's state changed.
Op(name, table, data, where, o) ==
    [op |-> name, table |-> table, data |-> data, where |-> where,
     ok |-> Ended(o, Emitted(o.events, listeners)).ok,
     err |-> Ended(o, Emitted(o.events, listeners)).err,
     invoked |-> Ended(o, Emitted(o.events, listeners)).invoked,
     events |-> o.events, ids |-> o.ids, codecRan |-> o.codecRan, sqlRan |-> o.sqlRan,
     changed |-> o.db # db, options |-> DefaultOptions, found |-> <<>>,
     visited |-> <<>>, ran |-> <<>>, ledger |-> <<>>]
NoOp == [op |-> "new", table |-> "", data |-> Empty, where |-> Empty, ok |-> TRUE,
         err |-> "", invoked |-> 0,
         events |-> <<>>, ids |-> {}, codecRan |-> FALSE, sqlRan |-> FALSE,
         changed |-> FALSE, options |-> DefaultOptions, found |-> <<>>,
         visited |-> <<>>, ran |-> <<>>, ledger |-> <<>>]

SoftDeleteColumns(schema) == {c \in DOMAIN schema : schema[c].softDelete}
Ids(rows) == {rows[i].id.n : i \in 1..Len(rows)}
MaxOf(S) == IF S = {} THEN 0 ELSE CHOOSE m \in S : \A x \in S : x <= m

\* SQL "col = ?": never true of NULL on either side.
Matching(row, where) ==
    \A k \in DOMAIN where : where[k].t # "null" /\ row[k] = where[k]

\* The loop over Object.entries(schema) in insert and update: processValue on every
\* payload key the schema names.
ProcessData(schema, data, key, salt) ==
    [k \in DOMAIN data |->
        IF k \in DOMAIN schema THEN ProcessValue(data[k], schema[k], key, salt)
        ELSE Return(data[k])]
\* stmt.run(values) on the processed payload: each value bound to its column.
BindData(cols, processed) ==
    [k \in DOMAIN processed |->
        Bind(processed[k].v, cols[k])]
AnyRaised(results) == \E k \in DOMAIN results : results[k].raised
FirstError(results) == results[CHOOSE k \in DOMAIN results : results[k].raised].err

\* createTable's CREATE TABLE IF NOT EXISTS: the table as first created stays.
CreateStorage(d, name, schema) ==
    IF d.tbl[name].exists THEN d
    ELSE [d EXCEPT !.tbl[name] =
            [exists |-> TRUE, cols |-> schema, rows |-> <<>>]]

Failure(err, codecRan, sqlRan) == Outcome(TRUE, err, db, <<>>, {}, codecRan, sqlRan)
Success(newDb, events, ids) == Outcome(FALSE, "", newDb, events, ids, TRUE, TRUE)

\* The statement names a table or a column the engine does not have, or is not SQL.
BadStatement(table, colsUsed, clausesNeeded) ==
    \/ ~db.tbl[table].exists
    \/ ~(colsUsed \subseteq DOMAIN db.tbl[table].cols)
    \/ \E clause \in clausesNeeded : clause = {}

\* INSERT INTO table (columns) VALUES (?...), the values bound.  (Every schema here
\* has the INTEGER PRIMARY KEY column id, the rowid.)
InsertBound(table, data, bound) ==
    LET t == db.tbl[table]
        newId == IF "id" \in DOMAIN data /\ bound.id.v.t = "num" THEN bound.id.v.n
                 ELSE MaxOf(Ids(t.rows)) + 1
        row == [c \in DOMAIN t.cols |->
                  IF c \in DOMAIN data /\ ~(c = "id" /\ bound[c].v.t = "null")
                  THEN bound[c].v
                  ELSE IF c = "id" THEN Num(newId) ELSE Null]
        sent == [k \in DOMAIN data \cup {"id"} |-> IF k = "id" THEN Num(newId) ELSE data[k]]
    IN IF AnyRaised(bound) THEN Failure(FirstError(bound), TRUE, TRUE)
       ELSE IF newId \in Ids(t.rows) THEN Failure("SqliteError", TRUE, TRUE)
       ELSE Success([db EXCEPT !.tbl[table].rows = Append(@, row)],
                    <<Event(table, "insert", Empty, sent)>>, {newId})

InsertProcessed(table, data, processed) ==
    IF AnyRaised(processed) THEN Failure(FirstError(processed), TRUE, FALSE)
    ELSE IF BadStatement(table, DOMAIN data, {DOMAIN data})
    THEN Failure("SqliteError", TRUE, TRUE)
    ELSE InsertBound(table, data, BindData(db.tbl[table].cols, processed))

\* GrokDB.insert without the validation step.
InsertUnvalidated(table, data, salt) ==
    IF ~tables[table].defined THEN Failure("SchemaError", FALSE, FALSE)
    ELSE InsertProcessed(table, data,
                         ProcessData(tables[table].schema, data, encryptionKey, salt))

\* GrokDB.insert(table, data): what the call does to the engine and what it publishes.
InsertOutcome(table, data, salt) ==
    IF ~tables[table].defined THEN Failure("SchemaError", FALSE, FALSE)
    ELSE IF validators[table] # NoValidator /\ ~Accepts(validators[table], data, FALSE)
    THEN Failure("ValidationError", FALSE, FALSE)
    ELSE InsertProcessed(table, data,
                         ProcessData(tables[table].schema, data, encryptionKey, salt))

\* UPDATE table SET ... WHERE ..., the values bound.
UpdateBound(table, data, where, bound) ==
    LET t == db.tbl[table]
        hit == {i \in 1..Len(t.rows) : Matching(t.rows[i], where)}
        rows == [i \in 1..Len(t.rows) |->
                   IF i \in hit
                   THEN [c \in DOMAIN t.cols |->
                           IF c \in DOMAIN data THEN bound[c].v ELSE t.rows[i][c]]
                   ELSE t.rows[i]]
    IN IF AnyRaised(bound) THEN Failure(FirstError(bound), TRUE, TRUE)
       ELSE Success([db EXCEPT !.tbl[table].rows = rows],
                    <<Event(table, "update", where, data)>>,
                    {t.rows[i].id.n : i \in hit})

UpdateProcessed(table, data, where, processed) ==
    IF AnyRaised(processed) THEN Failure(FirstError(processed), TRUE, FALSE)
    ELSE IF BadStatement(table, DOMAIN data \cup DOMAIN where, {DOMAIN data, DOMAIN where})
    THEN Failure("SqliteError", TRUE, TRUE)
    ELSE UpdateBound(table, data, where, BindData(db.tbl[table].cols, processed))

\* GrokDB.update(table, data, where)
UpdateOutcome(table, data, where, salt) ==
    IF ~tables[table].defined THEN Failure("SchemaError", FALSE, FALSE)
    ELSE IF validators[table] # NoValidator /\ ~Accepts(validators[table], data, TRUE)
    THEN Failure("ValidationError", FALSE, FALSE)
    ELSE UpdateProcessed(table, data, where,
                         ProcessData(tables[table].schema, data, encryptionKey, salt))

\* DELETE FROM table WHERE ...
DeleteRows(table, where) ==
    LET t == db.tbl[table]
        Keep(row) == ~Matching(row, where)
        hit == {i \in 1..Len(t.rows) : Matching(t.rows[i], where)}
    IN IF BadStatement(table, DOMAIN where, {DOMAIN where})
       THEN Failure("SqliteError", FALSE, TRUE)
       ELSE Outcome(FALSE, "", [db EXCEPT !.tbl[table].rows = SelectSeq(t.rows, Keep)],
                    <<Event(table, "delete", where, Empty)>>,
                    {t.rows[i].id.n : i \in hit}, FALSE, TRUE)

\* Object.entries(schema).find(([_, config]) => config.softDelete)?.[0]
SoftDeleteColumn(schema) == CHOOSE c \in SoftDeleteColumns(schema) : TRUE

\* GrokDB.delete issuing DELETE whatever the schema marks.
DeleteLiteral(table, where, salt) ==
    IF ~tables[table].defined THEN Failure("SchemaError", FALSE, FALSE)
    ELSE DeleteRows(table, where)

\* GrokDB.delete(table, where): an update that stamps the soft-delete column when
\* the schema marks one, a DELETE otherwise.
DeleteOutcome(table, where, salt) ==
    IF ~tables[table].defined THEN Failure("SchemaError", FALSE, FALSE)
    ELSE IF SoftDeleteColumns(tables[table].schema) # {}
    THEN UpdateOutcome(table, [c \in {SoftDeleteColumn(tables[table].schema)} |-> Now],
                       where, salt)
    ELSE DeleteRows(table, where)


\* The rows.map of find: unprocessValue on every column the schema names.
UnprocessRow(schema, row, key, fail) ==
    [k \in DOMAIN row |->
        IF k \in DOMAIN schema THEN UnprocessValue(row[k], schema[k], key, fail)
        ELSE Return(row[k])]

\* What find returns once every row went through unprocessValue.
Decoded(out) ==
    IF \E i \in 1..Len(out) : AnyRaised(out[i])
    THEN Raise("SyntaxError")
    ELSE Return([i \in 1..Len(out) |-> [k \in DOMAIN out[i] |-> out[i][k].v]])

\* The sort key of a value in ORDER BY: NULL sorts before every number.  (The
\* columns ordered on here are numeric.)
SortKey(v) == IF v.t = "null" THEN -1 ELSE v.n

RECURSIVE Sorted(_, _, _)
\* ORDER BY column direction: the rows by insertion, each before the first row
\* that belongs after it.
Sorted(rows, column, direction) ==
    IF rows = <<>> THEN <<>>
    ELSE LET rest == Sorted(SubSeq(rows, 1, Len(rows) - 1), column, direction)
             last == rows[Len(rows)]
             After(r) == IF direction = "DESC"
                         THEN SortKey(r[column]) < SortKey(last[column])
                         ELSE SortKey(r[column]) > SortKey(last[column])
             at == IF \E i \in 1..Len(rest) : After(rest[i])
                   THEN CHOOSE i \in 1..Len(rest) :
                           After(rest[i]) /\ \A j \in 1..(i - 1) : ~After(rest[j])
                   ELSE Len(rest) + 1
         IN SubSeq(rest, 1, at - 1) \o <<last>> \o SubSeq(rest, at, Len(rest))

\* if (options.orderBy) query += ORDER BY ...
Ordered(all, options) ==
    IF options.orderBy = NoOrder THEN all
    ELSE Sorted(all, options.orderBy.column, options.orderBy.direction)

\* LIMIT, and OFFSET inside it, as find appends them.
Page(all, options) ==
    LET from == IF TruthyNumber(options.limit) /\ TruthyNumber(options.offset)
                THEN options.offset + 1 ELSE 1
        upto == IF TruthyNumber(options.limit) THEN from + options.limit - 1 ELSE Len(all)
    IN SubSeq(all, from, IF upto < Len(all) THEN upto ELSE Len(all))

\* SELECT * FROM table WHERE ...: implicit is the hard-coded "deleted_at IS NULL".
Select(table, where, implicit) ==
    LET Selected(row) ==
            /\ implicit => row["deleted_at"].t = "null"
            /\ Matching(row, where)
    IN SelectSeq(db.tbl[table].rows, Selected)

\* The columns the statement names.
StatementColumns(where, options, implicit) ==
    DOMAIN where \cup (IF implicit THEN {"deleted_at"} ELSE {})
        \cup (IF options.orderBy = NoOrder THEN {} ELSE {options.orderBy.column})

FindRows(table, where, options, fail, implicit) ==
    IF BadStatement(table, StatementColumns(where, options, implicit), {})
    THEN Raise("SqliteError")
    ELSE Decoded([i \in 1..Len(Page(Ordered(Select(table, where, implicit), options),
                                    options)) |->
                    UnprocessRow(tables[table].schema,
                                 Page(Ordered(Select(table, where, implicit), options),
                                      options)[i],
                                 encryptionKey, fail)])

\* GrokDB.find(table, where, options); fail as in UnprocessValue.  v is the rows.
Find(table, where, options, fail) ==
    IF ~tables[table].defined THEN Raise("SchemaError")
    ELSE FindRows(table, where, options, fail,
                  SoftDeleteColumns(tables[table].schema) # {} /\ ~options.includeDeleted)

FirstOrNull(r) == IF r.raised THEN r ELSE IF r.v = <<>> THEN Return(Null) ELSE Return(r.v[1])
\* GrokDB.findOne: find with limit 1, and the first row or null.
FindOne(table, where, options, fail) ==
    FirstOrNull(Find(table, where, [options EXCEPT !.limit = 1], fail))

(***************************************************************************)
(* The public operations                                                   *)
(***************************************************************************)
\* What a call adds to the history of the open transaction: the ids inserted while
\* nothing but inserts ran.  The first call after the transaction's end clears it.
NoteInTxn(kind, table, o) ==
    /\ txnOther' = (inTxn /\ (txnOther \/ (kind # "insert" /\ ~o.raised)))
    /\ txnIns' = IF inTxn /\ ~txnOther'
                 THEN IF kind = "insert" /\ ~o.raised
                      THEN txnIns \o <<[table |-> table, id |-> CHOOSE i \in o.ids : TRUE]>>
                      ELSE txnIns
                 ELSE <<>>
    /\ txnBase' = IF inTxn THEN txnBase ELSE NoBase
    /\ UNCHANGED <<inTxn, snap, handles, owner, ended, published>>

\* The end of a call that ran statements: the engine's new state and the record
\* of the call.
Apply(kind, table, data, where, o) ==
    /\ db' = o.db
    /\ lastOp' = Op(kind, table, data, where, o)
    /\ NoteInTxn(kind, table, o)
    /\ UNCHANGED <<validators, encryptionKey, listeners, migVars, codecVars>>

\* createTable(name, schema)
CreateTable(name, schema) ==
    /\ tables' = [tables EXCEPT ![name] = Registered(schema)]
    /\ schemaHist' = [schemaHist EXCEPT !.defined[name] = DOMAIN schema]
    /\ Apply("createTable", name, Empty, Empty, Success(CreateStorage(db, name, schema), <<>>, {}))

\* The order of the keys of the schemas here (Object.keys): every schema literal
\* lists its columns in this order, and alterTable appends status.
ColumnOrder == <<"id", "email", "score", "deleted_at", "removed_at", "status">>
In(S) == LET Member(c) == c \in S IN SelectSeq(ColumnOrder, Member)
Extend(f, k, v) == [x \in DOMAIN f \cup {k} |-> IF x = k THEN v ELSE f[x]]
Without(f, k) == [x \in DOMAIN f \ {k} |-> f[x]]
SchemaRun(raised, err, newDb, registry) ==
    [raised |-> raised, err |-> err, db |-> newDb, tables |-> registry,
     events |-> <<>>, ids |-> {}, codecRan |-> FALSE, sqlRan |-> TRUE]

RECURSIVE AddColumns(_, _, _)
\* alterTable's loop over Object.entries(newColumns): ALTER TABLE ADD COLUMN, which
\* the engine refuses for a missing table or a column the table already has.
AddColumns(entries, table, acc) ==
    IF entries = <<>> \/ acc.raised THEN acc
    ELSE LET entry == Head(entries)
             t == acc.db.tbl[table]
         IN IF ~t.exists \/ entry.name \in DOMAIN t.cols
            THEN [acc EXCEPT !.raised = TRUE, !.err = "SqliteError"]
            ELSE AddColumns(Tail(entries), table,
                    [acc EXCEPT !.db.tbl[table] =
                        [exists |-> TRUE,
                         cols |-> Extend(t.cols, entry.name, entry.config),
                         rows |-> [i \in 1..Len(t.rows) |->
                                     Extend(t.rows[i], entry.name, Null)]]])

RECURSIVE Merged(_, _)
\* { ...schema, ...newColumns }
Merged(schema, entries) ==
    IF entries = <<>> THEN schema
    ELSE Merged(Extend(schema, Head(entries).name, Head(entries).config), Tail(entries))

\* GrokDB.alterTable(table, newColumns): the registry is set after the loop.
AlterOutcome(table, entries) ==
    IF ~tables[table].defined THEN SchemaRun(TRUE, "SchemaError", db, tables)
    ELSE LET added == AddColumns(entries, table, SchemaRun(FALSE, "", db, tables))
         IN IF added.raised THEN added
            ELSE [added EXCEPT !.tables[table] =
                                  Registered(Merged(tables[table].schema, entries))]

\* INSERT INTO temp SELECT columns FROM table: the selected columns go to temp's
\* columns by position.
Copied(source, target, columns) ==
    [i \in 1..Len(source.rows) |->
        [c \in DOMAIN target.cols |->
            source.rows[i][columns[CHOOSE k \in 1..Len(columns) : In(DOMAIN target.cols)[k] = c]]]]
CopyRefused(source, target, columns) ==
    \/ ~source.exists
    \/ ~(Range(columns) \subseteq DOMAIN source.cols)
    \/ Len(columns) # Cardinality(DOMAIN target.cols)
    \/ Ids(source.rows) \cap Ids(target.rows) # {}

\* dropColumn after createTable(tempTable, newSchema): the copy, DROP TABLE, the
\* rename, and this.tables.set(table, newSchema).
Rebuilt(table, temp, newSchema, created) ==
    IF CopyRefused(created.db.tbl[table], created.db.tbl[temp], In(DOMAIN newSchema))
    THEN [created EXCEPT !.raised = TRUE, !.err = "SqliteError"]
    ELSE [created EXCEPT
            !.db.tbl[table] =
                [created.db.tbl[temp] EXCEPT
                    !.rows = @ \o Copied(created.db.tbl[table], created.db.tbl[temp],
                                         In(DOMAIN newSchema))],
            !.db.tbl[temp] = NoTable,
            !.tables[table] = Registered(newSchema)]

\* this.createTable(name, schema) as dropColumn calls it: CREATE TABLE IF NOT EXISTS,
\* which is not SQL without a column, then this.tables.set(name, schema).
CreateOutcome(name, schema) ==
    IF DOMAIN schema = {} THEN SchemaRun(TRUE, "SqliteError", db, tables)
    ELSE SchemaRun(FALSE, "", CreateStorage(db, name, schema),
                   [tables EXCEPT ![name] = Registered(schema)])

\* GrokDB.dropColumn(table, column)
DropOutcome(table, column) ==
    IF ~tables[table].defined THEN SchemaRun(TRUE, "SchemaError", db, tables)
    ELSE IF CreateOutcome(TempTable(table), Without(tables[table].schema, column)).raised
    THEN CreateOutcome(TempTable(table), Without(tables[table].schema, column))
    ELSE Rebuilt(table, TempTable(table), Without(tables[table].schema, column),
                 CreateOutcome(TempTable(table), Without(tables[table].schema, column)))

\* The end of an alterTable or dropColumn call.
ApplySchema(kind, table, data, o, defined) ==
    /\ db' = o.db
    /\ tables' = o.tables
    /\ schemaHist' = [failed |-> schemaHist.failed \/ o.raised,
                      defined |-> IF o.raised THEN schemaHist.defined
                                  ELSE [schemaHist.defined EXCEPT ![table] = defined]]
    /\ lastOp' = [NoOp EXCEPT !.op = kind, !.table = table, !.data = data,
                              !.ok = ~o.raised, !.err = o.err, !.sqlRan = TRUE,
                              !.changed = o.db # db]
    /\ NoteInTxn(kind, table, o)
    /\ UNCHANGED <<validators, encryptionKey, listeners, migVars, codecVars>>

\* alterTable(table, newColumns)
AlterTable(table, entries) ==
    ApplySchema("alterTable", table, Empty, AlterOutcome(table, entries),
                schemaHist.defined[table] \cup {entries[i].name : i \in 1..Len(entries)})

\* dropColumn(table, column)
DropColumn(table, column) ==
    ApplySchema("dropColumn", table, [c \in {column} |-> Null],
                DropOutcome(table, column), schemaHist.defined[table] \ {column})

\* setValidator(table, schema)
SetValidator(table, validator) ==
    /\ validators' = [validators EXCEPT ![table] = validator]
    /\ lastOp' = [NoOp EXCEPT !.op = "setValidator", !.table = table]
    /\ UNCHANGED <<tables, db, encryptionKey, listeners, txnVars, migVars, codecVars, schemaHist>>

\* The salts a write to the table can draw: CryptoJS draws one only when
\* processValue reaches AES.encrypt, on a schema with an encrypted column.
SaltsUsed(table) ==
    IF \E c \in DOMAIN tables[table].schema : tables[table].schema[c].encrypted
    THEN Salts
    ELSE {CHOOSE salt \in Salts : TRUE}

\* Rows and ids are capped: a successful insert needs room.
Room(table, o) == o.raised \/ (Len(db.tbl[table].rows) < MaxRows /\ o.ids \subseteq 1..MaxId)

\* insert(table, data)
Insert(table, data, salt) ==
    /\ Room(table, InsertOutcome(table, data, salt))
    /\ UNCHANGED <<tables, schemaHist>>
    /\ Apply("insert", table, data, Empty, InsertOutcome(table, data, salt))

\* update(table, data, where)
Update(table, data, where, salt) ==
    /\ UNCHANGED <<tables, schemaHist>>
    /\ Apply("update", table, data, where, UpdateOutcome(table, data, where, salt))

\* delete(table, where)
Delete(table, where, salt) ==
    /\ UNCHANGED <<tables, schemaHist>>
    /\ Apply("delete", table, Empty, where, DeleteOutcome(table, where, salt))

TxnEvent(kind) == Event("transaction", kind, Empty, Empty)
\* The record of transaction(), commit() or rollback(): stmt tells whether the
\* statement succeeded.
TxnOp(name, h, stmt, events) ==
    [NoOp EXCEPT !.op = name,
                 !.ok = stmt /\ ~Emitted(events, listeners).raised,
                 !.err = IF ~stmt THEN "SqliteError"
                         ELSE IF Emitted(events, listeners).raised THEN "ListenerError"
                         ELSE "",
                 !.invoked = Emitted(events, listeners).invoked,
                 !.events = events, !.ids = {h}, !.sqlRan = TRUE]

\* transaction(): BEGIN, which the engine refuses inside a transaction, then the handle.
Transaction ==
    /\ handles < MaxHandles
    /\ IF inTxn
       THEN /\ lastOp' = TxnOp("transaction", 0, FALSE, <<>>)
            /\ UNCHANGED txnVars
       ELSE /\ inTxn' = TRUE
            /\ snap' = db
            /\ handles' = handles + 1
            /\ owner' = handles + 1
            /\ txnIns' = <<>>
            /\ txnOther' = FALSE
            /\ txnBase' = [t \in TableNames |-> Find(t, Empty, IncludeDeleted, "throws")]
            /\ lastOp' = TxnOp("transaction", handles + 1, TRUE, <<>>)
            /\ UNCHANGED <<ended, published>>
    /\ UNCHANGED <<tables, validators, encryptionKey, db, listeners, migVars, codecVars, schemaHist>>

\* The end of a transaction through handle h: the statement, which the engine
\* refuses when no transaction is open, then the event.
EndTransaction(h, kind, newDb) ==
    /\ h \in 1..handles
    /\ IF inTxn
       THEN /\ inTxn' = FALSE
            /\ db' = newDb
            /\ snap' = EmptyDb
            /\ owner' = 0
            /\ ended' = [ended EXCEPT ![h] = @ + 1]
            /\ published' = [published EXCEPT ![h] = @ + 1]
            /\ lastOp' = TxnOp(kind, h, TRUE, <<TxnEvent(kind)>>)
            /\ UNCHANGED <<handles, txnIns, txnOther, txnBase>>
       ELSE /\ lastOp' = TxnOp(kind, h, FALSE, <<>>)
            /\ UNCHANGED <<db, txnVars>>
    /\ UNCHANGED <<tables, validators, encryptionKey, listeners, migVars, codecVars, schemaHist>>

\* handle.commit()
Commit(h) == EndTransaction(h, "commit", db)

\* handle.rollback() issuing COMMIT where ROLLBACK belongs.
RollbackCommits(h) == EndTransaction(h, "rollback", db)

\* handle.rollback()
Rollback(h) == EndTransaction(h, "rollback", snap)

\* The record of a find or findOne call: its arguments and the rows it returned.
Found(name, table, where, options, r, rows) ==
    [NoOp EXCEPT !.op = name, !.table = table, !.where = where, !.options = options,
                 !.ok = ~r.raised, !.err = r.err, !.found = rows, !.sqlRan = TRUE]

\* find(table, where, options)
FindCall(table, where, options) ==
    /\ lastOp' = Found("find", table, where, options,
                       Find(table, where, options, "throws"),
                       IF Find(table, where, options, "throws").raised THEN <<>>
                       ELSE Find(table, where, options, "throws").v)
    /\ UNCHANGED <<tables, validators, encryptionKey, db, listeners, txnVars, migVars,
                   codecVars, schemaHist>>

\* findOne(table, where, options): found is the row, or empty for null.
FindOneCall(table, where, options) ==
    /\ lastOp' = Found("findOne", table, where, options,
                       FindOne(table, where, options, "throws"),
                       IF FindOne(table, where, options, "throws").raised
                          \/ FindOne(table, where, options, "throws").v = Null
                       THEN <<>>
                       ELSE <<FindOne(table, where, options, "throws").v>>)
    /\ UNCHANGED <<tables, validators, encryptionKey, db, listeners, txnVars, migVars,
                   codecVars, schemaHist>>

\* The listeners registered so far, over all topics.
ListenerCount == Cardinality({<<topic, i>> \in Topics \X (1..MaxListeners) :
                                i <= Len(listeners[topic])})

\* db.on(topic, listener) (EventEmitter): the listener goes last on its topic.
On(topic, kind) ==
    /\ ListenerCount < MaxListeners
    /\ listeners' = [listeners EXCEPT ![topic] = Append(@, kind)]
    /\ lastOp' = [NoOp EXCEPT !.op = "on"]
    /\ UNCHANGED <<tables, validators, encryptionKey, db, txnVars, migVars, codecVars, schemaHist>>

(***************************************************************************)
(* Migrations.  A unit file is <timestamp>_<name>.ts; createMigration      *)
(* writes the template, whose up and down procedures do nothing, and the   *)
(* caller fills the procedures in.                                         *)
(***************************************************************************)
MigrationNames == {"add_status", "add_index"}
\* The names index.ts imports from 'fs'.
FsImports == {"readFileSync", "writeFileSync", "existsSync", "mkdirSync"}
\* existsSync(this.migrationPath): the constructor creates the directory.
MigrationPathExists == TRUE

RECURSIVE SortedFiles(_)
\* readdirSync(...).filter(...).sort(): ascending by file name, so by timestamp.
SortedFiles(fs) ==
    IF fs = {} THEN <<>>
    ELSE LET first == CHOOSE f \in fs : \A g \in fs : f.ts <= g.ts
         IN <<first>> \o SortedFiles(fs \ {first})

\* The name a unit file goes by in the ledger.
Unit(file) == [ts |-> file.ts, name |-> file.name]
Executed(ledger, file) == \E i \in 1..Len(ledger.names) : ledger.names[i] = Unit(file)
\* visited: the units the loop reached; ran: the units whose procedure it invoked.
MigrationRun(raised, err, ledger, up, down) ==
    [raised |-> raised, err |-> err, ledger |-> ledger, up |-> up, down |-> down,
     visited |-> <<>>, ran |-> <<>>]

RECURSIVE RunMigrations(_, _, _)
\* The for loop of migrate over the sorted files.
RunMigrations(fileSeq, direction, acc) ==
    IF fileSeq = <<>> \/ acc.raised THEN acc
    ELSE LET file == Head(fileSeq)
             executed == Executed(acc.ledger, file)
             Drop(n) == n # Unit(file)
             seen == [acc EXCEPT !.visited = Append(@, Unit(file))]
             next ==
                 IF direction = "up"
                 THEN IF ~executed
                      THEN [seen EXCEPT !.up[file.ts] = @ + 1,
                                        !.ran = Append(@, Unit(file)),
                                        !.ledger.names = Append(@, Unit(file))]
                      ELSE seen
                 ELSE IF executed
                      THEN IF file.down = "throws"
                           THEN [seen EXCEPT !.down[file.ts] = @ + 1,
                                             !.ran = Append(@, Unit(file)),
                                             !.raised = TRUE, !.err = "MigrationError"]
                           ELSE [seen EXCEPT !.down[file.ts] = @ + 1,
                                             !.ran = Append(@, Unit(file)),
                                             !.ledger.names = SelectSeq(@, Drop)]
                      ELSE seen
         IN RunMigrations(Tail(fileSeq), direction, next)

\* migrate(direction): the ledger table is created, then the directory is listed
\* with readdirSync, a name the module never imports.
MigrateOutcome(direction) ==
    LET ledger == IF db.ledger.exists THEN db.ledger ELSE [exists |-> TRUE, names |-> <<>>]
        start == MigrationRun(FALSE, "", ledger, upRuns, downRuns)
    IN IF ~MigrationPathExists THEN RunMigrations(<<>>, direction, start)
       ELSE IF "readdirSync" \notin FsImports THEN [start EXCEPT !.raised = TRUE, !.err = "ReferenceError"]
       ELSE RunMigrations(SortedFiles(files), direction, start)

\* createMigration(name)
CreateMigration(name) ==
    /\ clock <= MaxFiles
    /\ files' = files \cup {[ts |-> clock, name |-> name, down |-> "returns"]}
    /\ clock' = clock + 1
    /\ lastOp' = [NoOp EXCEPT !.op = "createMigration"]
    /\ UNCHANGED <<tables, validators, encryptionKey, db, listeners, txnVars, upRuns,
                   downRuns, migHist, codecVars, schemaHist>>

\* The caller writes a down-procedure that throws into a unit file.
WriteDown(file) ==
    /\ file \in files
    /\ file.down = "returns"
    /\ files' = (files \ {file}) \cup {[file EXCEPT !.down = "throws"]}
    /\ lastOp' = [NoOp EXCEPT !.op = "writeDown"]
    /\ UNCHANGED <<tables, validators, encryptionKey, db, listeners, txnVars, clock,
                   upRuns, downRuns, migHist, codecVars, schemaHist>>

\* migrate(direction)
Migrate(direction) ==
    LET o == MigrateOutcome(direction) IN
    /\ Len(migHist) < MaxMigrateCalls
    /\ db' = [db EXCEPT !.ledger = o.ledger]
    /\ upRuns' = o.up
    /\ downRuns' = o.down
    /\ migHist' = Append(migHist, direction)
    /\ lastOp' = [NoOp EXCEPT !.op = "migrate", !.ok = ~o.raised, !.err = o.err,
                              !.sqlRan = TRUE, !.visited = o.visited, !.ran = o.ran,
                              !.ledger = db.ledger.names]
    /\ UNCHANGED <<tables, validators, encryptionKey, listeners, txnVars, files, clock,
                   codecVars, schemaHist>>

(***************************************************************************)
(* One value through a column: processValue in insert, the bind, and       *)
(* unprocessValue in find.                                                 *)
(***************************************************************************)
TestKey == Str(<<"k">>)
OtherKey == Str(<<"q">>)
Keys == {Undefined, Str(<<>>), TestKey, OtherKey}
CodecConfigs ==
    {Column("TEXT", FALSE, e, j, FALSE) : e \in BOOLEAN, j \in BOOLEAN}
SampleValues ==
    {Null, Num(7), Num(12), Bool(TRUE), Bool(FALSE),
     Str(<<>>), Str(<<"a">>), Str(<<"7">>), Str(<<"\"", "a", "\"">>), Str(<<"a", "\"">>),
     Str(<<"{", "\"", "k", "\"", ":", "1", "}">>),
     Arr(<<Num(1), Str(<<"a">>)>>),
     Obj(<<<<"k">>>>, <<Str(<<"a", "\\">>)>>),
     Obj(<<<<"k">>, <<"q">>>>, <<Obj(<<<<"k">>>>, <<Arr(<<Bool(TRUE), Null>>)>>), Num(3)>>)}
\* Text a column can hold that processValue did not write under this key.
StoredSamples ==
    {Str(<<"a">>), Str(<<"{", "\"", "k", "\"">>), Str(<<"7">>),
     Str(AESencrypt(<<"a">>, TestKey.s, "x")), Str(<<"U", "2", "F", "x">>)}

\* insert: processValue on the caller's value
Encoded(r) ==
    /\ cpc' = IF r.raised THEN "raisedEncode" ELSE "encoded"
    /\ cenc' = r.v
CodecEncode(salt) ==
    /\ cpc = "input"
    /\ Encoded(ProcessValue(cvalue, cconfig, encryptionKey, salt))
    /\ UNCHANGED <<crudVars, txnVars, migVars, encryptionKey, cvalue, cconfig, cstored,
                   cdec, craw>>

\* insert: stmt.run binds the processed value to the column
CodecBind ==
    LET r == Bind(cenc, cconfig) IN
    /\ cpc = "encoded"
    /\ cpc' = IF r.raised THEN "raisedBind" ELSE "stored"
    /\ cstored' = r.v
    /\ UNCHANGED <<crudVars, txnVars, migVars, encryptionKey, cvalue, cconfig, cenc,
                   cdec, craw>>

\* The column already holds text written some other way.
CodecStoreRaw(text) ==
    /\ cpc = "input"
    /\ cvalue = Null
    /\ cpc' = "stored"
    /\ cstored' = text
    /\ craw' = TRUE
    /\ UNCHANGED <<crudVars, txnVars, migVars, encryptionKey, cvalue, cconfig, cenc, cdec>>

\* find: unprocessValue on the stored value
DecodedAs(r) ==
    /\ cpc' = IF r.raised THEN "raisedDecode" ELSE "decoded"
    /\ cdec' = r.v
CodecDecode(fail) ==
    /\ cpc = "stored"
    /\ DecodedAs(UnprocessValue(cstored, cconfig, encryptionKey, fail))
    /\ UNCHANGED <<crudVars, txnVars, migVars, encryptionKey, cvalue, cconfig, cenc,
                   cstored, craw>>

(***************************************************************************)
(* The specifications                                                      *)
(***************************************************************************)
CrudInit ==
    /\ tables = [t \in Names |-> NoSchema]
    /\ validators = [t \in TableNames |-> NoValidator]
    /\ db = EmptyDb
    /\ lastOp = NoOp
    /\ listeners = NoListeners
    /\ schemaHist = NoSchemaCalls
TxnInit ==
    /\ inTxn = FALSE
    /\ snap = EmptyDb
    /\ handles = 0
    /\ owner = 0
    /\ ended = [h \in 1..MaxHandles |-> 0]
    /\ published = [h \in 1..MaxHandles |-> 0]
    /\ txnIns = <<>>
    /\ txnOther = FALSE
    /\ txnBase = NoBase
MigInit ==
    /\ files = {}
    /\ clock = 1
    /\ upRuns = [f \in 1..MaxFiles |-> 0]
    /\ downRuns = [f \in 1..MaxFiles |-> 0]
    /\ migHist = <<>>
CodecIdle ==
    /\ cpc = "idle"
    /\ cvalue = Null
    /\ cconfig = Column("TEXT", FALSE, FALSE, FALSE, FALSE)
    /\ cenc = Null
    /\ cstored = Null
    /\ cdec = Null
    /\ craw = FALSE

\* new GrokDB(path, {encryptionKey})
Init == CrudInit /\ TxnInit /\ MigInit /\ CodecIdle /\ encryptionKey = TestKey

Next ==
    \/ \E name \in TableNames, schema \in Schemas : CreateTable(name, schema)
    \/ \E table \in TableNames : SetValidator(table, UserValidator)
    \/ \E table \in TableNames : \E data \in InsertPayloads, salt \in SaltsUsed(table) :
          Insert(table, data, salt)
    \/ \E table \in TableNames :
          \E data \in UpdatePayloads, where \in Wheres, salt \in SaltsUsed(table) :
          Update(table, data, where, salt)
    \/ \E table \in TableNames : \E where \in Wheres, salt \in SaltsUsed(table) :
          Delete(table, where, salt)

Spec == Init /\ [][Next]_vars

NextTxn ==
    \/ \E name \in TableNames : CreateTable(name, PlainSchema)
    \/ \E table \in TableNames :
          \E data \in {[email |-> EmailA], [email |-> EmailB]}, salt \in SaltsUsed(table) :
             Insert(table, data, salt)
    \/ \E table \in TableNames : \E salt \in SaltsUsed(table) : Delete(table, [email |-> EmailA], salt)
    \/ Transaction
    \/ \E h \in 1..MaxHandles : Commit(h)
    \/ \E h \in 1..MaxHandles : Rollback(h)

SpecTxn == Init /\ [][NextTxn]_vars

NextMigrate ==
    \/ \E name \in MigrationNames : CreateMigration(name)
    \/ \E file \in files : WriteDown(file)
    \/ \E direction \in {"up", "down"} : Migrate(direction)

SpecMigrate == Init /\ [][NextMigrate]_vars

CodecInit ==
    /\ CrudInit /\ TxnInit /\ MigInit
    /\ encryptionKey \in Keys
    /\ cpc = "input"
    /\ cvalue \in SampleValues
    /\ cconfig \in CodecConfigs
    /\ cenc = Null
    /\ cstored = Null
    /\ cdec = Null
    /\ craw = FALSE

NextCodec ==
    \/ \E salt \in Salts : CodecEncode(salt)
    \/ CodecBind
    \/ \E text \in StoredSamples : CodecStoreRaw(text)
    \/ \E fail \in DecryptFailures : CodecDecode(fail)

SpecCodec == CodecInit /\ [][NextCodec]_vars

NextEvents ==
    \/ \E name \in TableNames : CreateTable(name, PlainSchema)
    \/ \E topic \in Topics, kind \in ListenerKinds : On(topic, kind)
    \/ \E table \in TableNames : \E salt \in SaltsUsed(table) : Insert(table, [email |-> EmailA], salt)
    \/ \E table \in TableNames : \E salt \in SaltsUsed(table) :
          Update(table, [email |-> EmailB], [email |-> EmailA], salt)
    \/ \E table \in TableNames : \E salt \in SaltsUsed(table) : Delete(table, [email |-> EmailA], salt)
    \/ Transaction
    \/ \E h \in 1..MaxHandles : Commit(h)
    \/ \E h \in 1..MaxHandles : Rollback(h)

SpecEvents == Init /\ [][NextEvents]_vars

Orderings(n) == {p \in [1..n -> 1..n] : \A i, j \in 1..n : p[i] = p[j] => i = j}
\* What a table of ScoreSchema holds after inserts of distinct scores and at most
\* one soft delete.
ScoreTables ==
    UNION {{[i \in 1..n |->
               [id |-> Num(i), score |-> Num(p[i]),
                deleted_at |-> IF i = d THEN Now ELSE Null]] :
            p \in Orderings(n), d \in 0..n} : n \in 0..MaxFound}
Orders == {NoOrder, [column |-> "score", direction |-> "ASC"],
           [column |-> "score", direction |-> "DESC"]}
FindOptions ==
    {QueryOptions(FALSE, limit, offset, orderBy) :
        limit \in {Absent} \cup 0..MaxLimit, offset \in {Absent} \cup 0..MaxOffset,
        orderBy \in Orders}

\* createTable('users', ScoreSchema) and the inserts and the delete behind it.
FindInit ==
    /\ tables = [t \in Names |-> IF t \in TableNames THEN Registered(ScoreSchema)
                                  ELSE NoSchema]
    /\ validators = [t \in TableNames |-> NoValidator]
    /\ db \in {[EmptyDb EXCEPT !.tbl["users"] =
                   [exists |-> TRUE, cols |-> ScoreSchema, rows |-> rows]] :
               rows \in ScoreTables}
    /\ lastOp = NoOp
    /\ listeners = NoListeners
    /\ schemaHist = [NoSchemaCalls EXCEPT !.defined["users"] = DOMAIN ScoreSchema]
    /\ TxnInit /\ MigInit /\ CodecIdle
    /\ encryptionKey = TestKey

NextFind ==
    \/ \E table \in TableNames, options \in FindOptions : FindCall(table, Empty, options)
    \/ \E table \in TableNames, options \in FindOptions : FindOneCall(table, Empty, options)

SpecFind == FindInit /\ [][NextFind]_vars

StatusColumn == [name |-> "status", config |-> Column("TEXT", FALSE, FALSE, FALSE, FALSE)]
EmailColumn == [name |-> "email", config |-> Column("TEXT", FALSE, FALSE, FALSE, FALSE)]
NewColumns == {<<StatusColumn>>, <<EmailColumn>>, <<StatusColumn, EmailColumn>>}
DroppedColumns == {"email", "deleted_at", "status"}

NextSchema ==
    \/ \E name \in TableNames, schema \in {PlainSchema, UsersSchema} :
          CreateTable(name, schema)
    \/ \E table \in TableNames, entries \in NewColumns : AlterTable(table, entries)
    \/ \E table \in TableNames, column \in DroppedColumns : DropColumn(table, column)
    \/ \E table \in TableNames : \E salt \in SaltsUsed(table) : Insert(table, [email |-> EmailA], salt)

SpecSchema == Init /\ [][NextSchema]_vars

NextDelete ==
    \/ \E name \in TableNames, schema \in Schemas : CreateTable(name, schema)
    \/ \E table \in TableNames, validator \in Validators : SetValidator(table, validator)
    \/ \E table \in TableNames :
          \E data \in {[email |-> EmailA], [email |-> EmailB]}, salt \in SaltsUsed(table) :
             Insert(table, data, salt)
    \/ \E table \in TableNames : \E where \in Wheres, salt \in SaltsUsed(table) :
          Delete(table, where, salt)

SpecDelete == Init /\ [][NextDelete]_vars

(***************************************************************************)
(* Properties                                                              *)
(***************************************************************************)
RaisedPcs == {"raisedEncode", "raisedBind", "raisedDecode"}
AfterEncode == {"encoded", "stored", "decoded", "raisedBind", "raisedDecode"}
AfterBind == {"stored", "decoded", "raisedDecode"}
IdsIn(r) == IF r.raised THEN {} ELSE {r.v[i].id.n : i \in 1..Len(r.v)}
RowOf(r, id) == r.v[CHOOSE i \in 1..Len(r.v) : r.v[i].id.n = id]
SoftDeleted == lastOp.op = "delete" /\ lastOp.ok /\ lastOp.ids # {}
                /\ SoftDeleteColumns(tables[lastOp.table].schema) # {}

\* C1: on a table whose schema marks a column (of any name) softDelete, once delete
\* has matched rows, find and findOne with default options leave those rows out,
\* find and findOne with includeDeleted return them with the soft-delete column
\* non-null, and the rows are still stored.
C1_SoftDeleteHidesRow ==
    SoftDeleted =>
        LET t == lastOp.table
            col == SoftDeleteColumn(tables[t].schema)
            shown == Find(t, Empty, DefaultOptions, "throws")
            all == Find(t, Empty, IncludeDeleted, "throws")
        IN /\ ~shown.raised /\ ~all.raised
           /\ \A id \in lastOp.ids :
                /\ id \notin IdsIn(shown)
                /\ FindOne(t, [id |-> Num(id)], DefaultOptions, "throws") = Return(Null)
                /\ id \in IdsIn(all)
                /\ RowOf(all, id)[col].t # "null"
                /\ FindOne(t, [id |-> Num(id)], IncludeDeleted, "throws")
                     = Return(RowOf(all, id))

\* C1's case: a delete has stamped rows of a table whose soft-delete column is not
\* named deleted_at.
C1_Witness ==
    SoftDeleted /\ SoftDeleteColumn(tables[lastOp.table].schema) = "removed_at"

\* C2: after transaction(), inserts and commit(), every inserted row is returned by
\* find; after rollback() instead, none of them is and find returns what it
\* returned before transaction().
C2_TransactionAtomicity ==
    LET now == [t \in TableNames |-> Find(t, Empty, IncludeDeleted, "throws")] IN
    /\ (lastOp.op = "commit" /\ lastOp.ok /\ ~txnOther) =>
          \A i \in 1..Len(txnIns) : txnIns[i].id \in IdsIn(now[txnIns[i].table])
    /\ (lastOp.op = "rollback" /\ lastOp.ok) =>
          /\ \A t \in TableNames :
                IF txnBase[t].raised THEN now[t].raised ELSE now[t] = txnBase[t]
          /\ ~txnOther =>
                \A i \in 1..Len(txnIns) : txnIns[i].id \notin IdsIn(now[txnIns[i].table])

\* C2's case: a transaction of two inserts has just been committed.
C2_Witness == lastOp.op = "commit" /\ lastOp.ok /\ ~txnOther /\ Len(txnIns) = 2

\* C2's other case: a transaction of two inserts has just been rolled back.
C2_RollbackReached == lastOp.op = "rollback" /\ lastOp.ok /\ ~txnOther /\ Len(txnIns) = 2

LedgerCount(file) ==
    Cardinality({i \in 1..Len(db.ledger.names) : db.ledger.names[i] = Unit(file)})
LastMigrate(direction) ==
    lastOp.op = "migrate" /\ migHist # <<>> /\ migHist[Len(migHist)] = direction

\* C3: migrate('up') completes without raising and leaves every available unit
\* recorded in the ledger, once; however many migrate('up') calls are made in a
\* row, no up-procedure has run more than once.
C3_MigrateUpIdempotent ==
    /\ LastMigrate("up") =>
          /\ lastOp.ok
          /\ \A f \in files : LedgerCount(f) = 1
    /\ (\A i \in 1..Len(migHist) : migHist[i] = "up") =>
          \A f \in files : upRuns[f.ts] <= 1

\* C3's case: migrate('up') has been called with a unit file in the directory.
C3_Witness == LastMigrate("up") /\ files # {}

\* C4: a unit has a ledger row exactly when its up-procedure has run more often than
\* its down-procedure; after migrate('up') then migrate('down') the ledger is
\* empty, and a following migrate('up') records every unit again.
C4_LedgerSymmetry ==
    /\ \A f \in files : (LedgerCount(f) > 0) <=> (upRuns[f.ts] > downRuns[f.ts])
    /\ (Len(migHist) >= 2 /\ lastOp.op = "migrate"
          /\ SubSeq(migHist, Len(migHist) - 1, Len(migHist)) = <<"up", "down">>) =>
          db.ledger.names = <<>>
    /\ (Len(migHist) >= 3 /\ lastOp.op = "migrate"
          /\ SubSeq(migHist, Len(migHist) - 2, Len(migHist)) = <<"up", "down", "up">>) =>
          \A f \in files : LedgerCount(f) = 1 /\ upRuns[f.ts] >= 1

\* C4's case: migrate('up'), migrate('down'), migrate('up') with a unit file.
C4_Witness == migHist = <<"up", "down", "up">> /\ files # {}

\* C5: each handle makes at most one COMMIT or ROLLBACK take effect and publishes
\* at most one transaction event, an event is published only by a statement that
\* succeeded, and transaction() inside a transaction opens no second one.
C5_HandleEndsOnce ==
    /\ \A h \in 1..MaxHandles : ended[h] <= 1 /\ published[h] <= 1
    /\ (lastOp.op \in {"commit", "rollback"} /\ ~lastOp.ok) => lastOp.events = <<>>
    /\ (lastOp.op = "transaction" /\ ~lastOp.ok) => inTxn /\ owner # 0

\* C5's case: a handle whose transaction has ended is used while a later handle's
\* transaction is open.
C5_Witness == inTxn /\ \E h \in 1..MaxHandles : h # owner /\ ended[h] = 1

Rejected(op) ==
    /\ ~op.ok
    /\ ~op.codecRan
    /\ ~op.sqlRan
    /\ op.events = <<>>

\* C6: an insert (full payload) or update (partial payload) that the table's
\* validator rejects raises with no codec run, no statement executed, the stored
\* rows unchanged and no event published; with no validator registered no call
\* ends in a ValidationError and an insert into a defined table is written.
C6_ValidationGate ==
    lastOp.op \in {"insert", "update"} =>
        IF validators[lastOp.table] # NoValidator
        THEN ~Accepts(validators[lastOp.table], lastOp.data, lastOp.op = "update") =>
                Rejected(lastOp) /\ ~lastOp.changed
        ELSE /\ lastOp.err # "ValidationError"
             /\ (lastOp.op = "insert" /\ tables[lastOp.table].defined
                   /\ db.tbl[lastOp.table].exists) =>
                   lastOp.ok /\ lastOp.changed /\ lastOp.ids \subseteq Ids(db.tbl[lastOp.table].rows)

\* C6's case: the validator of a defined table has just rejected a payload.
C6_Witness ==
    /\ lastOp.op \in {"insert", "update"}
    /\ lastOp.err = "ValidationError"
    /\ tables[lastOp.table].defined
    /\ db.tbl[lastOp.table].rows # <<>>

\* C7: on a json column every non-null value (object, nested object, array, number,
\* boolean, string) comes back from decode(encode(v)) as v without a raise, and a
\* value that is a string leaves encode unchanged.
C7_JsonRoundTrip ==
    (cconfig.json /\ cvalue.t # "null" /\ ~craw) =>
        /\ cpc \notin RaisedPcs
        /\ cpc = "decoded" => cdec = cvalue
        /\ (cvalue.t = "str" /\ cpc \in AfterEncode) => cenc = cvalue

\* C7's case: a string value has been through encode on a json column.
C7_Witness ==
    cconfig.json /\ cvalue.t = "str" /\ ~craw /\ cpc \in AfterEncode \cup {"raisedEncode"}

C9_JsonThenEncrypt ==
    (cconfig.json /\ cconfig.encrypted /\ Truthy(encryptionKey) /\ ~craw
       /\ cvalue.t \notin {"null", "str"}) =>
        /\ cpc \notin RaisedPcs
        /\ cpc \in AfterEncode =>
              /\ ~JSONparse(cenc.s).ok
              /\ AESdecrypt(cenc.s, encryptionKey.s)
                   = [ok |-> TRUE, s |-> JSONstringify(cvalue)]
        /\ cpc = "decoded" => cdec = cvalue

\* C9's case: an object has been encoded for a json and encrypted column under a key.
C9_Witness ==
    /\ cconfig.json /\ cconfig.encrypted /\ Truthy(encryptionKey) /\ ~craw
    /\ cvalue.t = "obj"
    /\ cpc \in AfterEncode

Unparsable == cconfig.json /\ cstored.t = "str" /\ ~JSONparse(cstored.s).ok
Undecryptable ==
    /\ cconfig.encrypted /\ ~cconfig.json /\ Truthy(encryptionKey)
    /\ cstored.t = "str" /\ ~AESdecrypt(cstored.s, encryptionKey.s).ok

\* C10: when the stored value of a json column does not parse, or the stored value
\* of an encrypted column does not decrypt under the configured key, decode does
\* not raise and returns the stored value.
C10_DecodeFailOpen ==
    (cpc \in {"decoded", "raisedDecode"} /\ (Unparsable \/ Undecryptable)) =>
        cpc = "decoded" /\ cdec = cstored

\* C10's case: decode has been applied to a stored value that does not parse.
C10_Witness == cpc \in {"decoded", "raisedDecode"} /\ Unparsable

Publishing == {"insert", "update", "delete", "commit", "rollback"}
\* The listeners of the topic the last call published on.
Heard == listeners[Topic(lastOp.events[1])]
Thrower(i) == i \in 1..Len(Heard) /\ Heard[i] = "throws"
\* The rows of the last call's table that the call matched or wrote.
Written == {r \in Range(db.tbl[lastOp.table].rows) : r.id.n \in lastOp.ids}

\* C11: when a listener of the topic that insert, update, delete, commit or rollback
\* publishes on throws, the call raises the listener's error, the listeners up to
\* and including the first thrower are the ones invoked and none registered after
\* it, and the statement already executed stays in effect: the inserted row is
\* stored, the updated rows carry the new values, the deleted rows are gone, the
\* transaction is ended.
C11_PublishNotIsolated ==
    (lastOp.op \in Publishing /\ lastOp.events # <<>> /\ \E i \in 1..Len(Heard) : Thrower(i)) =>
        /\ ~lastOp.ok
        /\ lastOp.err = "ListenerError"
        /\ Thrower(lastOp.invoked)
        /\ \A i \in 1..Len(Heard) : Thrower(i) => lastOp.invoked <= i
        /\ LET kind == lastOp.events[1].kind IN
           /\ kind = "insert" =>
                 Cardinality(Written) = 1 /\ \A r \in Written : r.email = lastOp.data.email
           /\ kind = "update" =>
                 \A r \in Written : \A c \in DOMAIN lastOp.events[1].data :
                    r[c] = lastOp.events[1].data[c]
           /\ kind = "delete" =>
                 Written = {} /\ (lastOp.ids # {} => lastOp.changed)
           /\ kind \in {"commit", "rollback"} => ~inTxn /\ ended[CHOOSE h \in lastOp.ids : TRUE] >= 1

\* C11's case: an insert wrote its row and the first of two listeners of its topic
\* threw.
C11_Witness ==
    /\ lastOp.op = "insert" /\ lastOp.err = "ListenerError"
    /\ Len(Heard) = 2 /\ lastOp.invoked = 1

\* C11's case for a transaction: commit() ran COMMIT and a listener of
\* transaction:commit threw.
C11_CommitReached == lastOp.op = "commit" /\ lastOp.err = "ListenerError" /\ txnIns # <<>>

\* The visible rows of the last call's table: not soft-deleted.
Visible == {r \in Range(db.tbl[lastOp.table].rows) : r.deleted_at.t = "null"}
\* The position of a visible row once the visible rows are sorted on the orderBy
\* column in the orderBy direction.
Position(r) ==
    LET c == lastOp.options.orderBy.column IN
    1 + Cardinality({x \in Visible :
            IF lastOp.options.orderBy.direction = "DESC"
            THEN x[c].n > r[c].n ELSE x[c].n < r[c].n})
Skipped == IF lastOp.options.offset = Absent THEN 0 ELSE lastOp.options.offset
\* The last position asked for: O + L, or the last there is when no limit is given.
LastAsked ==
    IF lastOp.options.limit = Absent THEN Cardinality(Visible)
    ELSE Skipped + lastOp.options.limit
Asked == {r \in Visible : Position(r) > Skipped /\ Position(r) <= LastAsked}

\* C12: find with orderBy, limit L and offset O returns exactly the rows at the
\* positions O+1..O+L of the visible rows sorted on the column in the direction,
\* in that order, for every L >= 0 and O >= 0, a missing limit standing for no
\* limit and a missing offset for 0; findOne returns the row at position O+1.
C12_OrderingPagination ==
    (lastOp.op \in {"find", "findOne"} /\ lastOp.options.orderBy # NoOrder) =>
        /\ lastOp.ok
        /\ lastOp.op = "find" =>
              /\ Len(lastOp.found) = Cardinality(Asked)
              /\ \A i \in 1..Len(lastOp.found) :
                    lastOp.found[i] \in Asked /\ Position(lastOp.found[i]) = Skipped + i
        /\ lastOp.op = "findOne" =>
              /\ Len(lastOp.found) = Cardinality({r \in Visible : Position(r) = Skipped + 1})
              /\ \A i \in 1..Len(lastOp.found) :
                    lastOp.found[i] \in Visible /\ Position(lastOp.found[i]) = Skipped + 1

\* C12's case: find, descending, limit 2 after offset 1, over three visible rows
\* stored out of order.
C12_Witness ==
    /\ lastOp.op = "find" /\ lastOp.ok
    /\ lastOp.options.orderBy = [column |-> "score", direction |-> "DESC"]
    /\ lastOp.options.limit = 2 /\ lastOp.options.offset = 1
    /\ Cardinality(Visible) = 3
    /\ Len(lastOp.found) = 2
    /\ db.tbl[lastOp.table].rows[1].score.n = 2

\* C12 for the options find does honour: a limit of at least 1, with or without
\* an offset.
C12_WithLimit ==
    (lastOp.op = "find" /\ lastOp.options.orderBy # NoOrder
       /\ lastOp.options.limit # Absent /\ lastOp.options.limit >= 1) =>
        /\ lastOp.ok
        /\ Len(lastOp.found) = Cardinality(Asked)
        /\ \A i \in 1..Len(lastOp.found) :
              lastOp.found[i] \in Asked /\ Position(lastOp.found[i]) = Skipped + i

\* The available units in ascending name order.
Available == [i \in 1..Len(SortedFiles(files)) |-> Unit(SortedFiles(files)[i])]
Recorded(ledger, unit) == \E i \in 1..Len(ledger) : ledger[i] = unit
\* The unit is in the ledger and its down-procedure throws.
Stops(i) ==
    Recorded(lastOp.ledger, Available[i]) /\ SortedFiles(files)[i].down = "throws"
\* How far down the available units migrate('down') is to go: to the end, or to
\* the first recorded unit whose down-procedure throws.
Reach ==
    IF \E i \in 1..Len(Available) : Stops(i)
    THEN CHOOSE i \in 1..Len(Available) : Stops(i) /\ \A j \in 1..(i - 1) : ~Stops(j)
    ELSE Len(Available)
IsRecorded(unit) == Recorded(lastOp.ledger, unit)

\* C13: migrate('down') visits the available units in ascending name order, up to
\* the first recorded unit whose down-procedure throws; the down-procedures invoked
\* are those of the visited units that were in the ledger, in that order; a
\* visited recorded unit whose down-procedure returned has lost its ledger row;
\* the rest of the ledger is as it was, so a unit that was not recorded is still
\* not, and the unit whose down-procedure threw still is.
C13_DownForwardOrder ==
    LastMigrate("down") =>
        /\ lastOp.visited = SubSeq(Available, 1, Reach)
        /\ lastOp.ran = SelectSeq(lastOp.visited, IsRecorded)
        /\ \A i \in 1..Len(Available) :
              Recorded(db.ledger.names, Available[i])
                 <=> /\ IsRecorded(Available[i])
                     /\ (i > Reach \/ Stops(i))

\* C13's case: migrate('down') has been called with two unit files in the directory.
C13_Witness == LastMigrate("down") /\ Cardinality(files) = 2

\* The payload delete hands to update on a table with a soft-delete column.
Stamp == [c \in {SoftDeleteColumn(tables[lastOp.table].schema)} |-> Now]
SoftTable == SoftDeleteColumns(tables[lastOp.table].schema) # {}

\* C14: a successful delete publishes exactly one event: <table>:delete carrying the
\* where map on a table without a soft-delete column, <table>:update (carrying the
\* where map and the stamp) on a table with one; and on a table with one, a
\* registered validator that rejects the stamp as a partial payload rejects the
\* delete as it rejects an update: nothing runs, nothing changes, nothing is
\* published.
C14_DeleteEvents ==
    (lastOp.op = "delete" /\ tables[lastOp.table].defined) =>
        /\ lastOp.ok =>
              /\ Len(lastOp.events) = 1
              /\ lastOp.events[1] =
                    IF SoftTable THEN Event(lastOp.table, "update", lastOp.where, Stamp)
                    ELSE Event(lastOp.table, "delete", lastOp.where, Empty)
        /\ (SoftTable /\ validators[lastOp.table] # NoValidator
              /\ ~Accepts(validators[lastOp.table], Stamp, TRUE)) =>
              Rejected(lastOp) /\ lastOp.err = "ValidationError" /\ ~lastOp.changed
        /\ ~SoftTable => lastOp.err # "ValidationError"

\* C14's case: a delete has stamped rows of a table with a soft-delete column and a
\* registered validator.
C14_Witness ==
    /\ lastOp.op = "delete" /\ lastOp.ok /\ lastOp.ids # {}
    /\ SoftTable /\ validators[lastOp.table] # NoValidator

\* C14's other cases: a delete on a table without a soft-delete column; a delete
\* the validator rejected.
C14_LiteralReached == lastOp.op = "delete" /\ lastOp.ok /\ lastOp.ids # {} /\ ~SoftTable
C14_RejectedReached == lastOp.op = "delete" /\ lastOp.err = "ValidationError"

\* C15: in every state reached by createTable, alterTable and dropColumn calls that
\* all succeeded, every name the registry holds is a table the engine has, with
\* the columns the caller last defined for it; after dropColumn(t, c) the registry
\* holds t without c and holds no t_temp.
C15_RegistryMatchesStorage ==
    ~schemaHist.failed =>
        /\ \A name \in Names :
              tables[name].defined =>
                 /\ db.tbl[name].exists
                 /\ DOMAIN tables[name].schema = schemaHist.defined[name]
        /\ (lastOp.op = "dropColumn" /\ lastOp.ok) =>
              /\ tables[lastOp.table].defined
              /\ DOMAIN lastOp.data \cap DOMAIN tables[lastOp.table].schema = {}
              /\ ~tables[TempTable(lastOp.table)].defined

\* C15's case: dropColumn has rebuilt a table that held a row, dropping a column
\* the table had.
C15_Witness ==
    /\ ~schemaHist.failed
    /\ lastOp.op = "dropColumn" /\ lastOp.ok
    /\ db.tbl[lastOp.table].rows # <<>>
    /\ DOMAIN lastOp.data \cap DOMAIN db.tbl[lastOp.table].cols = {}
    /\ Cardinality(DOMAIN db.tbl[lastOp.table].cols) = 2

\* C15 but for the registry entry dropColumn leaves for the temporary table.
C15_ButForTemp ==
    ~schemaHist.failed =>
        /\ \A name \in TableNames :
              tables[name].defined =>
                 /\ db.tbl[name].exists
                 /\ DOMAIN tables[name].schema = schemaHist.defined[name]
        /\ (lastOp.op = "dropColumn" /\ lastOp.ok) =>
              /\ tables[lastOp.table].defined
              /\ DOMAIN lastOp.data \cap DOMAIN tables[lastOp.table].schema = {}

====
